---- MODULE Spec2Model ----
(***************************************************************************)
(* Model of async-graphql-viz: request extraction (src/src/extract.rs),    *)
(* response encoding (src/src/response.rs), WebSocket sub-protocol         *)
(* negotiation and the subscription bridge (src/src/subscription.rs).      *)
(*                                                                         *)
(* Strings the code inspects character by character (variable paths,       *)
(* header names and values) are sequences of one-character strings.        *)
(* An Option<T> is a sequence of length 0 (None) or 1 (Some).              *)
(***************************************************************************)
EXTENDS Integers, Sequences, FiniteSets, TLC

\* ------------------------------------------------------------------ bounds
\* Longest multipart stream the environment sends (number of fields).
MaxFields == 4
\* Longest JSON array decoded from an `operations` field or a JSON body.
MaxBatch == 2

\* ------------------------------------------------------------- Option<T>
None == <<>>
Some(x) == <<x>>
IsSome(o) == o # <<>>
Unwrap(o) == o[1]

Range(s) == {s[i] : i \in 1..Len(s)}

\* ------------------------------------------------- strings as char sequences
DigitChars == {"0", "1", "2", "3", "4", "5", "6", "7", "8", "9"}

DigitValue(c) ==
  CASE c = "0" -> 0 [] c = "1" -> 1 [] c = "2" -> 2 [] c = "3" -> 3
    [] c = "4" -> 4 [] c = "5" -> 5 [] c = "6" -> 6 [] c = "7" -> 7
    [] c = "8" -> 8 [] c = "9" -> 9

\* Position of the first '.' of s, 0 when there is none.
FirstDot(s) ==
  IF \E i \in 1..Len(s) : s[i] = "."
    THEN CHOOSE i \in 1..Len(s) : s[i] = "." /\ \A j \in 1..(i - 1) : s[j] # "."
    ELSE 0

\* var_path.splitn(2, '.'): the first item, always present.
SplitFirst(s) == IF FirstDot(s) = 0 THEN s ELSE SubSeq(s, 1, FirstDot(s) - 1)

\* var_path.splitn(2, '.'): the second item, the whole remainder, if any.
SplitRest(s) ==
  IF FirstDot(s) = 0 THEN None ELSE Some(SubSeq(s, FirstDot(s) + 1, Len(s)))

RECURSIVE DecimalValue(_)
DecimalValue(ds) ==
  IF ds = <<>> THEN 0
  ELSE 10 * DecimalValue(SubSeq(ds, 1, Len(ds) - 1)) + DigitValue(ds[Len(ds)])

\* str::parse::<usize>().ok(): an optional leading '+', then one or more
\* decimal digits; anything else is None.  (The paths of the model are short,
\* so the value never reaches the overflow of usize.)
ParseUsize(s) ==
  LET ds == IF s # <<>> /\ s[1] = "+" THEN Tail(s) ELSE s
  IN IF ds # <<>> /\ \A i \in 1..Len(ds) : ds[i] \in DigitChars
       THEN Some(DecimalValue(ds))
       ELSE None

\* ------------------------------------------------------------ request data
VARIABLES
  method,       \* cx.method(): "GET" or "POST"
  contentType,  \* the request's Content-Type, which decides cx.multipart()
  pc,           \* position of extract / receive_batch_multipart
  branch,       \* arm of GraphQLBatchRequest::extract that was taken
  input,        \* history: the query string or JSON body that was decoded
  request,      \* receive_batch_multipart: `request`, Option<BatchRequest>
  map,          \* receive_batch_multipart: `map`, Option<HashMap<String, Vec<String>>>
  files,        \* receive_batch_multipart: `files`, not yet iterated by the binder
  upload,       \* binder: the `upload` of the file being bound, if any
  varPaths,     \* binder: the paths of `var_paths` still to visit
  cloneCalls,   \* number of upload.try_clone() calls made so far
  open,         \* the temporary-file handles that are open: created by
                \* tempfile() or try_clone() and not yet dropped
  mpResult,     \* value returned by receive_batch_multipart
  outcome,      \* value returned by GraphQLBatchRequest::extract
  single,       \* value returned by GraphQLRequest::extract, when it is the
                \* extractor that called GraphQLBatchRequest::extract
  sentOps,      \* history: the fields named "operations" consumed, in order
  sentMap,      \* history: the fields named "map" consumed, in order
  sentOther,    \* history: every other field consumed, in order
  late,         \* history: names among {"operations","map"} that were
                \* consumed after a file part had been collected
  gr,           \* response encoding: the GraphQLResponse to convert, if any
  resp,         \* response encoding: the Response built from gr, if any
  values,       \* negotiation: the Sec-WebSocket-Protocol values, if a
                \* header is being decoded
  protocol,     \* negotiation: the value SecWebsocketProtocol::decode returned
  wire,         \* bridge: what the transport's inbound half yields, in order
  taken,        \* bridge: number of items of `wire` pulled so far
  inputDone,    \* bridge: `input` has yielded None (take_while is done, or
                \* the transport ended)
  fed,          \* bridge: the items `input` has yielded to the engine, in order
  produced,     \* bridge: the WsMessages the engine has yielded, in order
  item,         \* bridge: the `item` of the loop awaiting sink.send, if any
  sink,         \* bridge: the messages handed to sink.send, with the result
  engineEnded,  \* bridge: the engine's output stream has yielded None
  bpc           \* bridge: position of graphql_subscription_with_data

extractVars == <<method, contentType, pc, branch, input, request, map, files, upload,
                 varPaths, cloneCalls, open, mpResult, outcome, single, sentOps,
                 sentMap, sentOther, late>>
encodeVars == <<gr, resp>>
protocolVars == <<values, protocol>>
bridgeVars == <<wire, taken, inputDone, fed, produced, item, sink, engineEnded, bpc>>

\* What GraphQLBatchRequest::extract leaves alone.
notExtractVars == <<single, encodeVars, protocolVars, bridgeVars>>

vars == <<extractVars, encodeVars, protocolVars, bridgeVars>>

\* Variable paths the file maps of the model use.  "v" stands for any
\* identifier character.
Path_0v == <<"0", ".", "v">>
Path_1v == <<"1", ".", "v">>
Path_9v == <<"9", ".", "v">>
Path_vf == <<"v", ".", "f">>
Path_0 == <<"0">>
Path_p1v == <<"+", "1", ".", "v">>
Path_0v1 == <<"0", ".", "v", ".", "1">>

EmptyMap == [k \in {} |-> <<>>]

\* The decoded contents a `map` field may carry: field name -> paths.
FileMaps ==
  { EmptyMap,
    [k \in {"f"} |-> <<Path_0v1, Path_9v>>],
    [k \in {"f", "g"} |-> IF k = "f" THEN <<Path_vf, Path_0v>> ELSE <<Path_1v>>],
    [k \in {"f", "g"} |-> IF k = "f" THEN <<Path_0>> ELSE <<Path_p1v, Path_1v>>],
    [k \in {""} |-> <<Path_vf>>] }

\* Bodies of fields, by what the JSON decoders make of them.
ObjectBody == [kind |-> "object", len |-> 0, fmap |-> EmptyMap]
ArrayBody(n) == [kind |-> "array", len |-> n, fmap |-> EmptyMap]
FileMapBody(m) == [kind |-> "filemap", len |-> 0, fmap |-> m]
GarbageBody == [kind |-> "garbage", len |-> 0, fmap |-> EmptyMap]
BytesBody == [kind |-> "bytes", len |-> 0, fmap |-> EmptyMap]

OperationsBodies == {ObjectBody} \cup {ArrayBody(n) : n \in 0..MaxBatch}

Field(n, fn, b, io) ==
  [name |-> n, filename |-> fn, content_type |-> None, body |-> b, io |-> io]

\* Fields the Field Stream Reader can yield and the code reads without error.
GoodFields ==
  {Field("operations", None, b, "ok") : b \in OperationsBodies}
  \cup {Field("map", None, FileMapBody(m), "ok") : m \in FileMaps}
  \cup {Field(n, Some("a.txt"), BytesBody, "ok") : n \in {"", "f", "g"}}
  \cup {Field("f", None, BytesBody, "ok")}

\* Fields whose reading fails: undecodable bodies, a body stream that breaks,
\* a file over the size limit, a temporary file that cannot be created.
BadFields ==
  {Field("operations", None, GarbageBody, "ok"),
   Field("operations", None, ObjectBody, "stream_error"),
   Field("map", None, GarbageBody, "ok"),
   Field("map", None, ObjectBody, "ok"),
   Field("f", Some("a.txt"), BytesBody, "limit"),
   Field("f", Some("a.txt"), BytesBody, "stream_error"),
   Field("g", Some("a.txt"), BytesBody, "tempfile_error")}

Fields == GoodFields \cup BadFields

\* ------------------------------------------------------------- BatchRequest
Document(i) == [id |-> i, uploads |-> <<>>]
Single(doc) == [shape |-> "Single", docs |-> <<doc>>]
Batch(docs) == [shape |-> "Batch", docs |-> docs]

\* serde: BatchRequest from JSON.  An object is a Single, an array a Batch of
\* its elements in array order, anything else an error (None).
DecodeBatchRequest(body) ==
  CASE body.kind = "object" -> Some(Single(Document(1)))
    [] body.kind = "array" -> Some(Batch([i \in 1..body.len |-> Document(i)]))
    [] OTHER -> None

\* serde: HashMap<String, Vec<String>> from JSON, the arm every content type
\* takes unless the crate is built with the feature "cbor".
DecodeFilesMap(body) ==
  IF body.kind = "filemap" THEN Some(body.fmap) ELSE None

\* Request::set_upload(path, upload) on one document.
SetUpload(doc, path, up) ==
  [doc EXCEPT !.uploads = Append(@, [path |-> path, upload |-> up])]

\* ------------------------------------------------ receive_batch_multipart
\* The locals of receive_batch_multipart as one value; `err` is the error the
\* function has returned with ("" while it has not), `ret` the Ok value.
\* `open` is the set of temporary-file handles that exist while it runs.
Locals(rq, mp, fs, up, vps, cc, op) ==
  [request |-> rq, map |-> mp, files |-> fs, upload |-> up, varPaths |-> vps,
   cloneCalls |-> cc, open |-> op, err |-> "", ret |-> None]

NewLocals == Locals(None, None, <<>>, None, <<>>, 0, {})

\* A temporary-file handle: the file it refers to and, for a handle made by
\* try_clone, the call that made it (0 for the handle tempfile() returned).
Handle(file, dup) == [file |-> file, dup |-> dup]

\* The handles the uploads of a Batch hold.
HandlesInBatch(batch) ==
  UNION { {batch.docs[i].uploads[u].upload.content :
             u \in 1..Len(batch.docs[i].uploads)} : i \in 1..Len(batch.docs) }

\* The handles the locals own: those of the collected files, of the upload
\* being bound and of the uploads already set in the request.
Owned(l) ==
  {l.files[i].content : i \in 1..Len(l.files)}
    \cup (IF l.upload = None THEN {} ELSE {Unwrap(l.upload).content})
    \cup (IF l.request = None THEN {} ELSE HandlesInBatch(Unwrap(l.request)))

\* A handle is created (tempfile(), try_clone()).
Alloc(l, h) == [l EXCEPT !.open = @ \cup {h}]

\* Values that own the handles hs go out of scope: the handles are closed.
Drop(l, hs) == [l EXCEPT !.open = @ \ hs]

\* `?` on an error: the function returns it and every local is dropped, and
\* with it the handles it owns.
Fail(l, e) ==
  [NewLocals EXCEPT !.cloneCalls = l.cloneCalls, !.err = e,
                    !.open = l.open \ Owned(l)]

\* OnField with a binder that does not buffer: a file part that arrives
\* before the `map` field is dropped instead of collected.
OnFieldUnbuffered(l, field) ==
  CASE field.name = "operations" ->
         IF field.io # "ok" THEN Fail(l, "StreamError")
         ELSE IF DecodeBatchRequest(field.body) = None THEN Fail(l, "JsonError")
         ELSE [l EXCEPT !.request = DecodeBatchRequest(field.body)]
    [] field.name = "map" ->
         IF field.io # "ok" THEN Fail(l, "StreamError")
         ELSE IF DecodeFilesMap(field.body) = None THEN Fail(l, "InvalidFilesMap")
         ELSE [l EXCEPT !.map = DecodeFilesMap(field.body)]
    [] OTHER ->
         IF field.name # "" /\ IsSome(field.filename) /\ l.map # None
           THEN LET h == Handle(Len(l.files) + 1, 0)
                IN CASE field.io = "tempfile_error" -> Fail(l, "Io")
                     [] field.io = "stream_error" ->
                          Fail(Drop(Alloc(l, h), {h}), "StreamError")
                     [] field.io = "limit" ->
                          Fail(Drop(Alloc(l, h), {h}), "PayloadTooLarge")
                     [] OTHER ->
                          [Alloc(l, h) EXCEPT !.files = Append(@,
                             [name |-> field.name,
                              filename |-> Unwrap(field.filename),
                              content_type |-> Some("application/json"),
                              content |-> h])]
           ELSE l

\* OnField with `operations` and `map` kept from their first occurrence: a
\* later occurrence is decoded and then left aside.
OnFieldFirstWins(l, field) ==
  CASE field.name = "operations" ->
         IF field.io # "ok" THEN Fail(l, "StreamError")
         ELSE IF DecodeBatchRequest(field.body) = None THEN Fail(l, "JsonError")
         ELSE IF l.request # None THEN l
         ELSE [l EXCEPT !.request = DecodeBatchRequest(field.body)]
    [] field.name = "map" ->
         IF field.io # "ok" THEN Fail(l, "StreamError")
         ELSE IF DecodeFilesMap(field.body) = None THEN Fail(l, "InvalidFilesMap")
         ELSE IF l.map # None THEN l
         ELSE [l EXCEPT !.map = DecodeFilesMap(field.body)]
    [] OTHER ->
         IF field.name # "" /\ IsSome(field.filename)
           THEN LET h == Handle(Len(l.files) + 1, 0)
                IN CASE field.io = "tempfile_error" -> Fail(l, "Io")
                     [] field.io = "stream_error" ->
                          Fail(Drop(Alloc(l, h), {h}), "StreamError")
                     [] field.io = "limit" ->
                          Fail(Drop(Alloc(l, h), {h}), "PayloadTooLarge")
                     [] OTHER ->
                          [Alloc(l, h) EXCEPT !.files = Append(@,
                             [name |-> field.name,
                              filename |-> Unwrap(field.filename),
                              content_type |-> Some("application/json"),
                              content |-> h])]
           ELSE l

\* OnField without the test for a filename: every named field that is
\* neither `operations` nor `map` is collected as a file.
OnFieldAnyField(l, field) ==
  CASE field.name = "operations" ->
         IF field.io # "ok" THEN Fail(l, "StreamError")
         ELSE IF DecodeBatchRequest(field.body) = None THEN Fail(l, "JsonError")
         ELSE [l EXCEPT !.request = DecodeBatchRequest(field.body)]
    [] field.name = "map" ->
         IF field.io # "ok" THEN Fail(l, "StreamError")
         ELSE IF DecodeFilesMap(field.body) = None THEN Fail(l, "InvalidFilesMap")
         ELSE [l EXCEPT !.map = DecodeFilesMap(field.body)]
    [] OTHER ->
         IF field.name # ""
           THEN LET h == Handle(Len(l.files) + 1, 0)
                IN CASE field.io = "tempfile_error" -> Fail(l, "Io")
                     [] field.io = "stream_error" ->
                          Fail(Drop(Alloc(l, h), {h}), "StreamError")
                     [] field.io = "limit" ->
                          Fail(Drop(Alloc(l, h), {h}), "PayloadTooLarge")
                     [] OTHER ->
                          [Alloc(l, h) EXCEPT !.files = Append(@,
                             [name |-> field.name,
                              filename |-> IF IsSome(field.filename)
                                             THEN Unwrap(field.filename) ELSE "",
                              content_type |-> Some("application/json"),
                              content |-> h])]
           ELSE l

\* OnField with an `operations` body that does not decode passed over: the
\* field is dropped and the loop goes on.
OnFieldSkipsMalformed(l, field) ==
  CASE field.name = "operations" ->
         IF field.io # "ok" THEN Fail(l, "StreamError")
         ELSE IF DecodeBatchRequest(field.body) = None THEN l
         ELSE [l EXCEPT !.request = DecodeBatchRequest(field.body)]
    [] field.name = "map" ->
         IF field.io # "ok" THEN Fail(l, "StreamError")
         ELSE IF DecodeFilesMap(field.body) = None THEN Fail(l, "InvalidFilesMap")
         ELSE [l EXCEPT !.map = DecodeFilesMap(field.body)]
    [] OTHER ->
         IF field.name # "" /\ IsSome(field.filename)
           THEN LET h == Handle(Len(l.files) + 1, 0)
                IN CASE field.io = "tempfile_error" -> Fail(l, "Io")
                     [] field.io = "stream_error" ->
                          Fail(Drop(Alloc(l, h), {h}), "StreamError")
                     [] field.io = "limit" ->
                          Fail(Drop(Alloc(l, h), {h}), "PayloadTooLarge")
                     [] OTHER ->
                          [Alloc(l, h) EXCEPT !.files = Append(@,
                             [name |-> field.name,
                              filename |-> Unwrap(field.filename),
                              content_type |-> Some("application/json"),
                              content |-> h])]
           ELSE l

\* One iteration of the `while let Some(field)` loop: the match on the name.
OnField(l, field) ==
  CASE field.name = "operations" ->
         IF field.io # "ok" THEN Fail(l, "StreamError")
         ELSE IF DecodeBatchRequest(field.body) = None THEN Fail(l, "JsonError")
         ELSE [l EXCEPT !.request = DecodeBatchRequest(field.body)]
    [] field.name = "map" ->
         IF field.io # "ok" THEN Fail(l, "StreamError")
         ELSE IF DecodeFilesMap(field.body) = None THEN Fail(l, "InvalidFilesMap")
         ELSE [l EXCEPT !.map = DecodeFilesMap(field.body)]
    [] OTHER ->
         IF field.name # "" /\ IsSome(field.filename)
           THEN LET h == Handle(Len(l.files) + 1, 0)
                IN CASE \* tempfile() fails: no handle was created
                        field.io = "tempfile_error" -> Fail(l, "Io")
                        \* copy_to_file fails: `file` is dropped with the rest
                     [] field.io = "stream_error" ->
                          Fail(Drop(Alloc(l, h), {h}), "StreamError")
                        \* the reader's limit error, carried as the cause
                     [] field.io = "limit" ->
                          Fail(Drop(Alloc(l, h), {h}), "PayloadTooLarge")
                     [] OTHER ->
                          [Alloc(l, h) EXCEPT !.files = Append(@,
                             [name |-> field.name,
                              filename |-> Unwrap(field.filename),
                              content_type |->
                                Some(IF IsSome(field.content_type)
                                       THEN Unwrap(field.content_type)
                                       ELSE "application/json"),
                              content |-> h])]
           ELSE l

\* AfterLoop with the two requirements in the other order.
AfterLoopMapFirst(l) ==
  IF l.map = None THEN Fail(l, "MissingMapPart")
  ELSE IF l.request = None THEN Fail(l, "MissingOperatorsPart")
  ELSE l

\* After the loop: request.ok_or(..)?, then map.as_mut().ok_or(..)?.
AfterLoop(l) ==
  IF l.request = None THEN Fail(l, "MissingOperatorsPart")
  ELSE IF l.map = None THEN Fail(l, "MissingMapPart")
  ELSE l

\* The document a path addresses: for a Single the document itself and the
\* whole path; for a Batch the element at the parsed index and the remainder
\* of the path.  None when the path is skipped.
Target(batch, varPath) ==
  IF batch.shape = "Single"
    THEN Some([idx |-> 1, path |-> varPath])
    ELSE LET idx == ParseUsize(SplitFirst(varPath))
             path == SplitRest(varPath)
         IN IF IsSome(idx) /\ IsSome(path) /\ Unwrap(idx) < Len(batch.docs)
              THEN Some([idx |-> Unwrap(idx) + 1, path |-> Unwrap(path)])
              ELSE None

\* TakeFile with map.get in the place of map.remove: the entry stays.
TakeFileKeepsEntry(l) ==
  LET f == Head(l.files)
      m == Unwrap(l.map)
  IN IF f.name \in DOMAIN m
       THEN [(IF m[f.name] = <<>> THEN Drop(l, {f.content}) ELSE l) EXCEPT
                !.files = Tail(@),
                !.upload = IF m[f.name] = <<>> THEN None
                           ELSE Some([filename |-> f.filename,
                                      content_type |-> f.content_type,
                                      content |-> f.content]),
                !.varPaths = m[f.name]]
       ELSE [Drop(l, {f.content}) EXCEPT !.files = Tail(@)]

\* TakeFile with the temporary file of a part that is not bound kept open.
TakeFileKeepsUnbound(l) ==
  LET f == Head(l.files)
      m == Unwrap(l.map)
  IN IF f.name \in DOMAIN m
       THEN [l EXCEPT !.files = Tail(@),
                      !.map = Some([k \in (DOMAIN m) \ {f.name} |-> m[k]]),
                      !.upload = IF m[f.name] = <<>> THEN None
                                 ELSE Some([filename |-> f.filename,
                                            content_type |-> f.content_type,
                                            content |-> f.content]),
                      !.varPaths = m[f.name]]
       ELSE [l EXCEPT !.files = Tail(@)]

\* `for (name, filename, content_type, content) in files`: the next file is
\* taken; map.remove(&name) decides whether it is bound at all.  A file that
\* is not bound, or is bound to no path, is dropped at the end of its turn.
TakeFile(l) ==
  LET f == Head(l.files)
      m == Unwrap(l.map)
  IN IF f.name \in DOMAIN m
       THEN [(IF m[f.name] = <<>> THEN Drop(l, {f.content}) ELSE l) EXCEPT
                !.files = Tail(@),
                !.map = Some([k \in (DOMAIN m) \ {f.name} |-> m[k]]),
                !.upload = IF m[f.name] = <<>> THEN None
                           ELSE Some([filename |-> f.filename,
                                      content_type |-> f.content_type,
                                      content |-> f.content]),
                !.varPaths = m[f.name]]
       ELSE [Drop(l, {f.content}) EXCEPT !.files = Tail(@)]

\* BindPath with a path that addresses no document reported as an error.
BindPathStrict(l, cloneOk) ==
  LET varPath == Head(l.varPaths)
      rq == Unwrap(l.request)
      up == Unwrap(l.upload)
      t == Target(rq, varPath)
      rest == Tail(l.varPaths)
      next == [(IF rest = <<>> THEN Drop(l, {up.content}) ELSE l) EXCEPT
                 !.varPaths = rest,
                 !.upload = IF rest = <<>> THEN None ELSE @]
      clone == Handle(up.content.file, l.cloneCalls + 1)
  IN IF t = None THEN Fail(l, "InvalidRequest")
     ELSE IF ~cloneOk THEN Fail([l EXCEPT !.cloneCalls = @ + 1], "Io")
     ELSE [Alloc(next, clone) EXCEPT
             !.cloneCalls = @ + 1,
             !.request = Some([rq EXCEPT !.docs[Unwrap(t).idx] =
                SetUpload(@, Unwrap(t).path, [up EXCEPT !.content = clone])])]

\* BindPath with the upload set in every document of the Batch.
BindPathBroadcast(l, cloneOk) ==
  LET varPath == Head(l.varPaths)
      rq == Unwrap(l.request)
      up == Unwrap(l.upload)
      t == Target(rq, varPath)
      rest == Tail(l.varPaths)
      next == [(IF rest = <<>> THEN Drop(l, {up.content}) ELSE l) EXCEPT
                 !.varPaths = rest,
                 !.upload = IF rest = <<>> THEN None ELSE @]
      clone == Handle(up.content.file, l.cloneCalls + 1)
  IN IF t = None THEN next
     ELSE IF ~cloneOk THEN Fail([l EXCEPT !.cloneCalls = @ + 1], "Io")
     ELSE [Alloc(next, clone) EXCEPT
             !.cloneCalls = @ + 1,
             !.request = Some([rq EXCEPT !.docs =
                [i \in 1..Len(rq.docs) |->
                   SetUpload(rq.docs[i], Unwrap(t).path,
                             [up EXCEPT !.content = clone])]])]

\* BindPath with a failed try_clone swallowed: the path is left unbound and
\* the binder goes on.
BindPathLenient(l, cloneOk) ==
  LET varPath == Head(l.varPaths)
      rq == Unwrap(l.request)
      up == Unwrap(l.upload)
      t == Target(rq, varPath)
      rest == Tail(l.varPaths)
      next == [(IF rest = <<>> THEN Drop(l, {up.content}) ELSE l) EXCEPT
                 !.varPaths = rest,
                 !.upload = IF rest = <<>> THEN None ELSE @]
      clone == Handle(up.content.file, l.cloneCalls + 1)
  IN IF t = None THEN next
     ELSE IF ~cloneOk THEN [next EXCEPT !.cloneCalls = @ + 1]
     ELSE [Alloc(next, clone) EXCEPT
             !.cloneCalls = @ + 1,
             !.request = Some([rq EXCEPT !.docs[Unwrap(t).idx] =
                SetUpload(@, Unwrap(t).path, [up EXCEPT !.content = clone])])]

\* One iteration of `for var_path in var_paths`.  cloneOk is the outcome of
\* upload.try_clone(), which is only called when the path addresses a document.
BindPath(l, cloneOk) ==
  LET varPath == Head(l.varPaths)
      rq == Unwrap(l.request)
      up == Unwrap(l.upload)
      t == Target(rq, varPath)
      rest == Tail(l.varPaths)
      next == [(IF rest = <<>> THEN Drop(l, {up.content}) ELSE l) EXCEPT
                 !.varPaths = rest,
                 !.upload = IF rest = <<>> THEN None ELSE @]
      clone == Handle(up.content.file, l.cloneCalls + 1)
  IN IF t = None THEN next
     ELSE IF ~cloneOk THEN Fail([l EXCEPT !.cloneCalls = @ + 1], "Io")
     ELSE [Alloc(next, clone) EXCEPT
             !.cloneCalls = @ + 1,
             !.request = Some([rq EXCEPT !.docs[Unwrap(t).idx] =
                SetUpload(@, Unwrap(t).path, [up EXCEPT !.content = clone])])]

\* Finish without the unconsumed-keys check.
FinishUnchecked(l) ==
  [NewLocals EXCEPT !.cloneCalls = l.cloneCalls, !.ret = l.request,
                    !.open = l.open]

\* After the binder: the unconsumed-keys check and the return.  The request
\* that is returned keeps the handles of its uploads.
Finish(l) ==
  IF DOMAIN Unwrap(l.map) # {} THEN Fail(l, "MissingFiles")
  ELSE [NewLocals EXCEPT !.cloneCalls = l.cloneCalls, !.ret = l.request,
                         !.open = l.open]

\* ------------------------------------------------------ results and rejection
Pending == [tag |-> "pending", batch |-> None, err |-> ""]
NoOutcome == [tag |-> "pending", batch |-> None, rejection |-> None]
NoSingle == [tag |-> "pending", request |-> None, rejection |-> None]

\* ParseRequestError::InvalidRequest(Box::from(e)).
InvalidRequest(e) == [kind |-> "InvalidRequest", cause |-> e]

\* extract: Ok(Self(batch)).
Decoded(b) == [tag |-> "Decoded", batch |-> Some(b), rejection |-> None]

\* extract: the map_err closure followed by `?`.
Failed(e) ==
  [tag |-> "Failed", batch |-> None, rejection |-> Some(InvalidRequest(e))]

PAYLOAD_TOO_LARGE == 413
BAD_REQUEST == 400

\* impl From<GraphQLRejection> for Response: the status of the response.
RejectionStatus(rejection) ==
  IF rejection.kind = "PayloadTooLarge" THEN PAYLOAD_TOO_LARGE ELSE BAD_REQUEST

\* cx.multipart() is Ok.
IsMultipart(ct) == ct = "multipart/form-data"

\* cx.query(): the query string decoded as one Request.
DecodeQuery(q) ==
  IF q.kind = "object" THEN Some(Document(1)) ELSE None

QueryStrings == {ObjectBody, GarbageBody}
JsonBodies == OperationsBodies \cup {GarbageBody}

\* ------------------------------------------------------------------ actions
\* No response is being encoded, no header decoded.
NoEncoding == gr = None /\ resp = None
NoNegotiation == values = None /\ protocol = None

\* No WebSocket is being bridged.
NoBridge ==
  /\ wire = <<>>
  /\ taken = 0
  /\ inputDone = FALSE
  /\ fed = <<>>
  /\ produced = <<>>
  /\ item = None
  /\ sink = <<>>
  /\ engineEnded = FALSE
  /\ bpc = "idle"

Init ==
  /\ NoEncoding
  /\ NoNegotiation
  /\ NoBridge
  /\ method \in {"GET", "POST"}
  /\ contentType \in {"multipart/form-data", "application/json"}
  /\ pc = "start"
  /\ branch = "none"
  /\ input = None
  /\ request = None
  /\ map = None
  /\ files = <<>>
  /\ upload = None
  /\ varPaths = <<>>
  /\ cloneCalls = 0
  /\ open = {}
  /\ mpResult = Pending
  /\ outcome = NoOutcome
  /\ single = NoSingle
  /\ sentOps = <<>>
  /\ sentMap = <<>>
  /\ sentOther = <<>>
  /\ late = {}

CurrentLocals == Locals(request, map, files, upload, varPaths, cloneCalls, open)

\* The variables of receive_batch_multipart after a step that left its locals
\* as l: it goes on at `nextpc`, or has returned, and then extract returns too.
Continue(l, nextpc) ==
  /\ request' = l.request
  /\ map' = l.map
  /\ files' = l.files
  /\ upload' = l.upload
  /\ varPaths' = l.varPaths
  /\ cloneCalls' = l.cloneCalls
  /\ open' = l.open
  /\ IF l.err # ""
       THEN /\ pc' = "done"
            /\ mpResult' = [tag |-> "Err", batch |-> None, err |-> l.err]
            /\ outcome' = Failed(l.err)
       ELSE IF l.ret # None
         THEN /\ pc' = "done"
              /\ mpResult' = [tag |-> "Ok", batch |-> l.ret, err |-> ""]
              /\ outcome' = Decoded(Unwrap(l.ret))
         ELSE /\ pc' = nextpc
              /\ UNCHANGED <<mpResult, outcome>>

\* ExtractGet decoding the body of the GET request as JSON, as the last arm
\* does.
ExtractGetFromBody ==
  /\ pc = "start"
  /\ method = "GET"
  /\ \E b \in JsonBodies :
       /\ input' = Some(b)
       /\ outcome' = IF DecodeBatchRequest(b) = None
                       THEN Failed("JsonError")
                       ELSE Decoded(Unwrap(DecodeBatchRequest(b)))
  /\ pc' = "done"
  /\ branch' = "GetQuery"
  /\ UNCHANGED <<method, contentType, request, map, files, upload, varPaths,
                 cloneCalls, open, mpResult, sentOps, sentMap, sentOther, late>>
  /\ UNCHANGED notExtractVars

\* extract, method GET: the Batch is the query string decoded as a Single.
ExtractGet ==
  /\ pc = "start"
  /\ method = "GET"
  /\ \E q \in QueryStrings :
       /\ input' = Some(q)
       /\ outcome' = IF DecodeQuery(q) = None
                       THEN Failed("QueryError")
                       ELSE Decoded(Single(Unwrap(DecodeQuery(q))))
  /\ pc' = "done"
  /\ branch' = "GetQuery"
  /\ UNCHANGED <<method, contentType, request, map, files, upload, varPaths,
                 cloneCalls, open, mpResult, sentOps, sentMap, sentOther, late>>
  /\ UNCHANGED notExtractVars

\* extract, not GET, cx.multipart() is Ok: the limits are set and
\* receive_batch_multipart starts.
ExtractMultipart ==
  /\ pc = "start"
  /\ method # "GET"
  /\ IsMultipart(contentType)
  /\ pc' = "read"
  /\ branch' = "MultipartUpload"
  /\ UNCHANGED <<method, contentType, input, request, map, files, upload, varPaths,
                 cloneCalls, open, mpResult, outcome, sentOps, sentMap, sentOther,
                 late>>
  /\ UNCHANGED notExtractVars

\* extract, not GET, cx.multipart() is Err: the whole body decoded as JSON.
ExtractJson ==
  /\ pc = "start"
  /\ method # "GET"
  /\ ~IsMultipart(contentType)
  /\ \E b \in JsonBodies :
       /\ input' = Some(b)
       /\ outcome' = IF DecodeBatchRequest(b) = None
                       THEN Failed("JsonError")
                       ELSE Decoded(Unwrap(DecodeBatchRequest(b)))
  /\ pc' = "done"
  /\ branch' = "JsonBody"
  /\ UNCHANGED <<method, contentType, request, map, files, upload, varPaths,
                 cloneCalls, open, mpResult, sentOps, sentMap, sentOther, late>>
  /\ UNCHANGED notExtractVars

FieldsRead == Len(sentOps) + Len(sentMap) + Len(sentOther)

\* multipart.try_next() yields a field, and the loop body runs on it.
ReadField ==
  /\ pc = "read"
  /\ FieldsRead < MaxFields
  /\ \E field \in Fields :
       /\ Continue(OnField(CurrentLocals, field), "read")
       /\ sentOps' = IF field.name = "operations"
                       THEN Append(sentOps, field) ELSE sentOps
       /\ sentMap' = IF field.name = "map"
                       THEN Append(sentMap, field) ELSE sentMap
       /\ sentOther' = IF field.name \notin {"operations", "map"}
                         THEN Append(sentOther, field) ELSE sentOther
       /\ late' = IF field.name \in {"operations", "map"} /\ files # <<>>
                    THEN late \cup {field.name} ELSE late
  /\ UNCHANGED <<method, contentType, branch, input>>
  /\ UNCHANGED notExtractVars

\* multipart.try_next() yields an error.
StreamError ==
  /\ pc = "read"
  /\ Continue(Fail(CurrentLocals, "StreamError"), "read")
  /\ UNCHANGED <<method, contentType, branch, input, sentOps, sentMap, sentOther,
                 late>>
  /\ UNCHANGED notExtractVars

\* multipart.try_next() yields None: the loop ends and the two parts are
\* required.
EndOfStream ==
  /\ pc = "read"
  /\ Continue(AfterLoop(CurrentLocals), "bind")
  /\ UNCHANGED <<method, contentType, branch, input, sentOps, sentMap, sentOther,
                 late>>
  /\ UNCHANGED notExtractVars

\* The binder takes the next collected file.
NextFile ==
  /\ pc = "bind"
  /\ varPaths = <<>>
  /\ files # <<>>
  /\ Continue(TakeFile(CurrentLocals), "bind")
  /\ UNCHANGED <<method, contentType, branch, input, sentOps, sentMap, sentOther,
                 late>>
  /\ UNCHANGED notExtractVars

\* The binder visits the next path of the file it holds.
BindNextPath ==
  /\ pc = "bind"
  /\ varPaths # <<>>
  /\ \E cloneOk \in BOOLEAN :
       Continue(BindPath(CurrentLocals, cloneOk), "bind")
  /\ UNCHANGED <<method, contentType, branch, input, sentOps, sentMap, sentOther,
                 late>>
  /\ UNCHANGED notExtractVars

\* Every file has been visited: the map must be empty, and the Batch is returned.
Return ==
  /\ pc = "bind"
  /\ varPaths = <<>>
  /\ files = <<>>
  /\ Continue(Finish(CurrentLocals), "done")
  /\ UNCHANGED <<method, contentType, branch, input, sentOps, sentMap, sentOther,
                 late>>
  /\ UNCHANGED notExtractVars

\* BatchRequest::into_single: the Request of a Single, UnsupportedBatch for a
\* Batch.
IntoSingle(batch) ==
  IF batch.shape = "Single"
    THEN [tag |-> "Ok", request |-> Some(batch.docs[1]), rejection |-> None]
    ELSE [tag |-> "Err", request |-> None,
          rejection |-> Some([kind |-> "UnsupportedBatch", cause |-> ""])]

\* ExtractSingle with a Batch of one element taken for its element.
ExtractSingleUnwrapsOne ==
  /\ pc = "done"
  /\ single = NoSingle
  /\ single' = IF outcome.tag = "Failed"
                 THEN [tag |-> "Err", request |-> None, rejection |-> outcome.rejection]
                 ELSE IF Len(Unwrap(outcome.batch).docs) = 1
                   THEN [tag |-> "Ok", request |-> Some(Unwrap(outcome.batch).docs[1]),
                         rejection |-> None]
                   ELSE IntoSingle(Unwrap(outcome.batch))
  /\ open' = open
  /\ UNCHANGED <<method, contentType, pc, branch, input, request, map, files, upload,
                 varPaths, cloneCalls, mpResult, outcome, sentOps, sentMap,
                 sentOther, late>>
  /\ UNCHANGED <<encodeVars, protocolVars, bridgeVars>>

\* GraphQLRequest::extract, after its call of GraphQLBatchRequest::extract has
\* returned: `?` passes a rejection on, into_single()? turns the Batch into
\* its Request or into a rejection, and a Batch that is rejected is dropped.
ExtractSingle ==
  /\ pc = "done"
  /\ single = NoSingle
  /\ single' = IF outcome.tag = "Failed"
                 THEN [tag |-> "Err", request |-> None, rejection |-> outcome.rejection]
                 ELSE IntoSingle(Unwrap(outcome.batch))
  /\ open' = IF outcome.tag = "Decoded" /\ Unwrap(outcome.batch).shape = "Batch"
               THEN open \ HandlesInBatch(Unwrap(outcome.batch))
               ELSE open
  /\ UNCHANGED <<method, contentType, pc, branch, input, request, map, files, upload,
                 varPaths, cloneCalls, mpResult, outcome, sentOps, sentMap,
                 sentOther, late>>
  /\ UNCHANGED <<encodeVars, protocolVars, bridgeVars>>

Next ==
  \/ ExtractSingle
  \/ ExtractGet
  \/ ExtractMultipart
  \/ ExtractJson
  \/ ReadField
  \/ StreamError
  \/ EndOfStream
  \/ NextFile
  \/ BindNextPath
  \/ Return

Spec == Init /\ [][Next]_vars

\* --------------------------------- receive_batch_multipart as one function
RECURSIVE ReadAll(_, _)
\* The `while let` loop over a whole stream of fields.
ReadAll(l, fields) ==
  IF l.err # "" \/ fields = <<>> THEN l
  ELSE ReadAll(OnField(l, Head(fields)), Tail(fields))

RECURSIVE BindAll(_, _)
\* The binder loops and the return; the failAt-th call of try_clone fails
\* (0: none does).
BindAll(l, failAt) ==
  IF l.err # "" \/ l.ret # None THEN l
  ELSE IF l.varPaths # <<>>
    THEN BindAll(BindPath(l, l.cloneCalls + 1 # failAt), failAt)
  ELSE IF l.files # <<>> THEN BindAll(TakeFile(l), failAt)
  ELSE Finish(l)

\* receive_batch_multipart on a stream that yields `fields` and then ends.
ReceiveBatchMultipart(fields, failAt) ==
  LET r == ReadAll(NewLocals, fields)
      l == BindAll(IF r.err # "" THEN r ELSE AfterLoop(r), failAt)
  IN IF l.err # ""
       THEN [tag |-> "Err", batch |-> None, err |-> l.err]
       ELSE [tag |-> "Ok", batch |-> l.ret, err |-> ""]

\* ----------------------------------------------- vocabulary of the claims
\* The multipart pipeline has returned.
MultipartDone == pc = "done" /\ branch = "MultipartUpload"

\* The fields consumed so far, of every name.
Consumed == Range(sentOps) \cup Range(sentMap) \cup Range(sentOther)

\* An `operations` (a `map`) field is well-formed when its bytes arrive and
\* decode.
WellFormedOperations(field) ==
  field.io = "ok" /\ field.body.kind \in {"object", "array"}
WellFormedMap(field) ==
  field.io = "ok" /\ field.body.kind = "filemap"

\* A file part in the words of the specification: a field named neither
\* `operations` nor `map` that carries a filename.
IsFilePart(field) ==
  field.name \notin {"operations", "map"} /\ IsSome(field.filename)

\* The File Map of the request: the contents of the last `map` field.
TheFileMap == sentMap[Len(sentMap)].body.fmap

\* The error a field raises when it is read, "" when it raises none.
RaisedBy(field) ==
  CASE field.name = "operations" /\ field.io # "ok" -> "StreamError"
    [] field.name = "operations" /\ ~WellFormedOperations(field) -> "JsonError"
    [] field.name = "map" /\ field.io # "ok" -> "StreamError"
    [] field.name = "map" /\ ~WellFormedMap(field) -> "InvalidFilesMap"
    [] IsFilePart(field) /\ field.name # "" /\ field.io = "tempfile_error" -> "Io"
    [] IsFilePart(field) /\ field.name # "" /\ field.io = "stream_error" -> "StreamError"
    [] IsFilePart(field) /\ field.name # "" /\ field.io = "limit" -> "PayloadTooLarge"
    [] OTHER -> ""

\* Every field consumed was read without error, and the stream did not break.
AllFieldsRead ==
  /\ \A field \in Consumed : RaisedBy(field) = ""
  /\ mpResult.err # "StreamError"

\* Decoding came to the unconsumed-keys check: the two parts were there and
\* no clone failed.
AllPartsProcessed ==
  /\ MultipartDone
  /\ AllFieldsRead
  /\ sentOps # <<>>
  /\ sentMap # <<>>
  /\ mpResult.err # "Io"

\* ----------------------------------------------------------------- claim C1
\* A key of the File Map is matched when a file part carrying that field
\* name was consumed.
Matched(k) == \E field \in Range(sentOther) : IsFilePart(field) /\ field.name = k

\* The same, for file parts whose field name is not empty.
MatchedByNamedPart(k) ==
  \E field \in Range(sentOther) :
    IsFilePart(field) /\ field.name # "" /\ field.name = k

\* C1 as stated: once every file part has been processed, a File Map with a
\* key that no file part matched makes decoding fail with MissingFiles and
\* return no Batch, and a File Map whose keys were all matched does not fail
\* with MissingFiles.
C1_AsStated ==
  AllPartsProcessed =>
    IF \E k \in DOMAIN TheFileMap : ~Matched(k)
      THEN /\ mpResult.tag = "Err"
           /\ mpResult.err = "MissingFiles"
           /\ outcome.tag = "Failed"
           /\ outcome.batch = None
           /\ Unwrap(outcome.rejection).cause = "MissingFiles"
      ELSE mpResult.err # "MissingFiles"

\* C1 amended: the same with "matched" meaning matched by a file part whose
\* field name is not empty (a part with an empty name is never collected, so
\* a key "" is never matched).
C1_MissingFiles ==
  AllPartsProcessed =>
    IF \E k \in DOMAIN TheFileMap : ~MatchedByNamedPart(k)
      THEN /\ mpResult.tag = "Err"
           /\ mpResult.err = "MissingFiles"
           /\ outcome.tag = "Failed"
           /\ outcome.batch = None
           /\ Unwrap(outcome.rejection).cause = "MissingFiles"
      ELSE /\ mpResult.tag = "Ok"
           /\ outcome.tag = "Decoded"

\* Witness of C1: decoding failed with MissingFiles although one key of a
\* two-key map was matched by a file part.
C1_Witness ==
  /\ AllPartsProcessed
  /\ mpResult.err = "MissingFiles"
  /\ \E k \in DOMAIN TheFileMap : MatchedByNamedPart(k)
  /\ \E k \in DOMAIN TheFileMap : ~MatchedByNamedPart(k)

\* ----------------------------------------------------------------- claim C2
\* The multipart pipeline failed with error e and handed no Batch to the
\* caller.
FailedWith(e) ==
  /\ mpResult.tag = "Err"
  /\ mpResult.err = e
  /\ outcome.tag = "Failed"
  /\ outcome.batch = None
  /\ Unwrap(outcome.rejection).cause = e

\* C2 as stated: a request that has ended, whose stream did not break and
\* held no field named `operations`, failed with MissingOperationsPart (in
\* the code: MissingOperatorsPart); one that held `operations` but no `map`
\* failed with MissingMapPart; whatever the other fields were.
C2_AsStated ==
  (MultipartDone /\ mpResult.err # "StreamError") =>
    /\ sentOps = <<>> => FailedWith("MissingOperatorsPart")
    /\ (sentOps # <<>> /\ sentMap = <<>>) => FailedWith("MissingMapPart")

\* C2 amended: the same for the requests every field of which was read
\* without error (an undecodable `map` or `operations` body, a file over the
\* limit or a temporary file that cannot be created fails the request first,
\* with its own error).
C2_MissingParts ==
  (MultipartDone /\ AllFieldsRead) =>
    /\ sentOps = <<>> => FailedWith("MissingOperatorsPart")
    /\ (sentOps # <<>> /\ sentMap = <<>>) => FailedWith("MissingMapPart")

\* Witness of C2: a request with a `map` and two file parts but no
\* `operations` has failed with MissingOperatorsPart.
C2_Witness ==
  /\ MultipartDone
  /\ AllFieldsRead
  /\ sentOps = <<>>
  /\ sentMap # <<>>
  /\ Len(sentOther) >= 2
  /\ FailedWith("MissingOperatorsPart")

\* ----------------------------------------------------------------- claim C3
\* A file part over the size limit was the last field consumed.
FileOverLimit ==
  /\ MultipartDone
  /\ sentOther # <<>>
  /\ sentOther[Len(sentOther)].io = "limit"
  /\ mpResult.err = "PayloadTooLarge"

\* C3: when a file part exceeds the maximum file size, the extraction fails
\* with the kind PayloadTooLarge and the response built from the rejection
\* has a status other than the bad-request status of the other errors.
C3_PayloadTooLarge ==
  FileOverLimit =>
    /\ outcome.tag = "Failed"
    /\ Unwrap(outcome.rejection).kind = "PayloadTooLarge"
    /\ RejectionStatus(Unwrap(outcome.rejection)) # BAD_REQUEST

\* ----------------------------------------------------------------- claim C4
\* No document of the Batch being decoded holds an upload.
NothingBound ==
  request # None =>
    \A i \in 1..Len(Unwrap(request).docs) : Unwrap(request).docs[i].uploads = <<>>

\* The request held exactly one `operations` and one `map` field, both
\* well-formed, and its stream did not break between fields.
OneOperationsOneMap ==
  /\ MultipartDone
  /\ Len(sentOps) = 1
  /\ Len(sentMap) = 1
  /\ WellFormedOperations(sentOps[1])
  /\ WellFormedMap(sentMap[1])
  /\ ~(mpResult.err = "StreamError" /\ \A field \in Consumed : RaisedBy(field) = "")

\* The same fields with `operations` and `map` placed first and the other
\* fields in the order they had.
CanonicalStream == <<sentOps[1], sentMap[1]>> \o sentOther

\* The call of try_clone that failed in this run, 0 when none did.
FailedClone ==
  IF mpResult.err = "Io" /\ \A field \in Consumed : RaisedBy(field) = ""
    THEN cloneCalls ELSE 0

\* C4: with one well-formed `operations` and one well-formed `map`, the
\* result is the one the same fields give with `operations` and `map` placed
\* first (so it is the same for every placement of the two, the other fields
\* keeping their order), and while fields are still being read no upload is
\* bound.
C4_OrderIndependent ==
  /\ OneOperationsOneMap =>
       mpResult = ReceiveBatchMultipart(CanonicalStream, FailedClone)
  /\ pc = "read" => NothingBound

\* Witness of C4: a request decoded with `operations` arriving after a file
\* part and `map` before any, two file parts, and an upload bound.
C4_Witness ==
  /\ OneOperationsOneMap
  /\ late = {"operations"}
  /\ Len(sentOther) >= 2
  /\ \A field \in Range(sentOther) : IsFilePart(field) /\ field.name # ""
  /\ mpResult.tag = "Ok"
  /\ \E i \in 1..Len(Unwrap(mpResult.batch).docs) :
       Unwrap(mpResult.batch).docs[i].uploads # <<>>

\* ----------------------------------------------------------- claims C5, C6
\* The binder holds a batch-shaped Batch and is about to visit a path.
BindingInBatch ==
  /\ pc = "bind"
  /\ varPaths # <<>>
  /\ Unwrap(request).shape = "Batch"

\* In a batch of n documents the path has a prefix that is no non-negative
\* integer, or no '.' remainder, or an index that is n or more.
SkippedPath(p, n) ==
  \/ ParseUsize(SplitFirst(p)) = None
  \/ SplitRest(p) = None
  \/ Unwrap(ParseUsize(SplitFirst(p))) >= n

\* The Batch the last `operations` field decodes to.
TheOperations == Unwrap(DecodeBatchRequest(sentOps[Len(sentOps)].body))

\* The file parts the request carried under a non-empty name, in order.
NamedPart(field) == IsFilePart(field) /\ field.name # ""
NamedParts == SelectSeq(sentOther, NamedPart)

\* The k-th named file part is the first of its name and its name is a key
\* of the File Map.
Binds(k) ==
  /\ NamedParts[k].name \in DOMAIN TheFileMap
  /\ \A j \in 1..(k - 1) : NamedParts[j].name # NamedParts[k].name

\* (document, path, file) for every upload a batch-shaped Batch of n documents
\* must hold: each path of each binding file that is not skipped.
ExpectedBindings(n) ==
  UNION { { <<Unwrap(ParseUsize(SplitFirst(p))) + 1, Unwrap(SplitRest(p)), k>> :
              p \in {q \in Range(TheFileMap[NamedParts[k].name]) : ~SkippedPath(q, n)} } :
          k \in {j \in 1..Len(NamedParts) : Binds(j)} }

\* (document, path, file) for every upload a Batch holds.
Bindings(batch) ==
  UNION { { <<i, batch.docs[i].uploads[u].path,
              batch.docs[i].uploads[u].upload.content.file>> :
              u \in 1..Len(batch.docs[i].uploads) } :
          i \in 1..Len(batch.docs) }

\* A request with a batch-shaped `operations` and a `map` in which nothing
\* but path skipping can have gone wrong.
NothingElseFails ==
  /\ AllPartsProcessed
  /\ TheOperations.shape = "Batch"
  /\ \A k \in DOMAIN TheFileMap : MatchedByNamedPart(k)

\* A skipped path is stepped over: no error, the Batch, the map and the
\* collected files as they were, the other paths of the file still to visit.
SkipStep ==
  (BindingInBatch /\ SkippedPath(Head(varPaths), Len(Unwrap(request).docs))) =>
     /\ pc' = "bind"
     /\ mpResult' = Pending
     /\ request' = request
     /\ map' = map
     /\ files' = files
     /\ varPaths' = Tail(varPaths)
     /\ cloneCalls' = cloneCalls

\* C5: in a batch-shaped Batch of length N a path whose prefix is no
\* non-negative integer, that has no '.' remainder or whose index is >= N is
\* skipped without error; the other paths of the file and of other files are
\* still bound, the file's key stays consumed and decoding succeeds when
\* nothing else fails.
C5_SkippedPaths ==
  /\ [](NothingElseFails =>
          /\ mpResult.tag = "Ok"
          /\ Bindings(Unwrap(mpResult.batch))
               = ExpectedBindings(Len(TheOperations.docs)))
  /\ [][SkipStep]_vars

\* Witness of C5: a batch decoded although one path was skipped, with an
\* upload bound by the same file as the skipped path.
C5_Witness ==
  /\ NothingElseFails
  /\ mpResult.tag = "Ok"
  /\ \E k \in 1..Len(NamedParts) :
       /\ Binds(k)
       /\ \E p \in Range(TheFileMap[NamedParts[k].name]) :
            SkippedPath(p, Len(TheOperations.docs))
       /\ \E b \in Bindings(Unwrap(mpResult.batch)) : b[3] = k

\* A path "<i>.<rest>" with 0 <= i < N is bound in element i alone: its
\* uploads gain the upload at <rest>, every other element is unchanged, and
\* so is the length of the batch.
BindStep ==
  (BindingInBatch /\ ~SkippedPath(Head(varPaths), Len(Unwrap(request).docs))
     /\ pc' = "bind") =>
     LET i == Unwrap(ParseUsize(SplitFirst(Head(varPaths)))) + 1
         old == Unwrap(request).docs
         new == Unwrap(request').docs
     IN /\ Len(new) = Len(old)
        /\ \A j \in 1..Len(old) : j # i => new[j] = old[j]
        /\ new[i].id = old[i].id
        /\ Len(new[i].uploads) = Len(old[i].uploads) + 1
        /\ SubSeq(new[i].uploads, 1, Len(old[i].uploads)) = old[i].uploads
        /\ new[i].uploads[Len(new[i].uploads)].path = Unwrap(SplitRest(Head(varPaths)))
        /\ new[i].uploads[Len(new[i].uploads)].upload.filename = Unwrap(upload).filename
        /\ new[i].uploads[Len(new[i].uploads)].upload.content.file
             = Unwrap(upload).content.file

\* The documents of a batch-shaped Batch are those of the decoded array, in
\* array order.
SameDocuments(batch) ==
  batch.shape = "Batch" =>
    /\ TheOperations.shape = "Batch"
    /\ Len(batch.docs) = sentOps[Len(sentOps)].body.len
    /\ \A i \in 1..Len(batch.docs) : batch.docs[i].id = i

\* C6: binding "<i>.<rest>" with 0 <= i < N sets the upload at <rest> of
\* element i only, and the batch keeps the length and order it had when the
\* `operations` field was decoded.
C6_BindsOneElement ==
  /\ []((request # None => SameDocuments(Unwrap(request)))
        /\ (mpResult.tag = "Ok" => SameDocuments(Unwrap(mpResult.batch))))
  /\ [][BindStep]_vars

\* Witness of C6: a batch of two or more returned with an upload in its
\* second element and none in its first.
C6_Witness ==
  /\ MultipartDone
  /\ mpResult.tag = "Ok"
  /\ Unwrap(mpResult.batch).shape = "Batch"
  /\ Len(Unwrap(mpResult.batch).docs) >= 2
  /\ Unwrap(mpResult.batch).docs[1].uploads = <<>>
  /\ Unwrap(mpResult.batch).docs[2].uploads # <<>>

\* ----------------------------------------------------------------- claim C9
\* The arm extract takes, by method and body kind.
ArmFor(m, ct) ==
  IF m = "GET" THEN "GetQuery"
  ELSE IF ct = "multipart/form-data" THEN "MultipartUpload"
  ELSE "JsonBody"

\* C9: extraction takes the arm its method and body kind select and no
\* other: a GET is decoded from the query string and gives a single-shaped
\* Batch, a multipart body goes through the multipart pipeline, any other
\* body is decoded whole as JSON; an extraction that has ended is either
\* Decoded with a Batch or Failed with a rejection, and a failure of the GET
\* and JSON arms is InvalidRequest.
C9_ThreeBranches ==
  /\ branch # "none" => branch = ArmFor(method, contentType)
  /\ pc # "start" => branch # "none"
  /\ branch # "MultipartUpload" =>
       mpResult = Pending /\ Consumed = {} /\ request = None /\ map = None
  /\ branch = "MultipartUpload" => input = None
  /\ pc # "done" => outcome = NoOutcome
  /\ pc = "done" =>
       \/ /\ outcome.tag = "Decoded"
          /\ outcome.batch # None
          /\ outcome.rejection = None
       \/ /\ outcome.tag = "Failed"
          /\ outcome.batch = None
          /\ outcome.rejection # None
  /\ (pc = "done" /\ branch = "GetQuery") =>
       IF Unwrap(input).kind = "object"
         THEN /\ outcome.tag = "Decoded"
              /\ Unwrap(outcome.batch).shape = "Single"
              /\ Len(Unwrap(outcome.batch).docs) = 1
         ELSE /\ outcome.tag = "Failed"
              /\ Unwrap(outcome.rejection).kind = "InvalidRequest"
  /\ (pc = "done" /\ branch = "JsonBody") =>
       CASE Unwrap(input).kind = "object" ->
              /\ outcome.tag = "Decoded"
              /\ Unwrap(outcome.batch).shape = "Single"
         [] Unwrap(input).kind = "array" ->
              /\ outcome.tag = "Decoded"
              /\ Unwrap(outcome.batch).shape = "Batch"
              /\ Len(Unwrap(outcome.batch).docs) = Unwrap(input).len
         [] OTHER ->
              /\ outcome.tag = "Failed"
              /\ Unwrap(outcome.rejection).kind = "InvalidRequest"
  /\ (pc = "done" /\ branch = "MultipartUpload") =>
       \/ outcome.tag = "Decoded" /\ mpResult.tag = "Ok"
            /\ outcome.batch = mpResult.batch
       \/ outcome.tag = "Failed" /\ mpResult.tag = "Err"

\* Witness of C9: a GET request that carries a multipart content type was
\* decoded from its query string.
C9_Witness ==
  /\ pc = "done"
  /\ method = "GET"
  /\ contentType = "multipart/form-data"
  /\ branch = "GetQuery"
  /\ outcome.tag = "Decoded"

\* ---------------------------------------------------------------- claim C10
\* Number of uploads the Batch being decoded holds.
RECURSIVE UploadCount(_)
UploadCount(docs) ==
  IF docs = <<>> THEN 0 ELSE Len(Head(docs).uploads) + UploadCount(Tail(docs))

\* A field that raises an error when read ends the pipeline with that error.
FieldErrorStep ==
  LET field == IF sentOps' # sentOps THEN sentOps'[Len(sentOps')]
               ELSE IF sentMap' # sentMap THEN sentMap'[Len(sentMap')]
               ELSE sentOther'[Len(sentOther')]
  IN (FieldsRead' = FieldsRead + 1 /\ RaisedBy(field) # "") =>
       /\ pc' = "done"
       /\ mpResult'.tag = "Err"
       /\ mpResult'.err = RaisedBy(field)

\* A call of try_clone either binds one more upload or ends the pipeline with
\* the error of the clone.
CloneStep ==
  cloneCalls' = cloneCalls + 1 =>
    \/ /\ pc' = "bind"
       /\ UploadCount(Unwrap(request').docs) = UploadCount(Unwrap(request).docs) + 1
    \/ /\ pc' = "done"
       /\ mpResult'.tag = "Err"
       /\ mpResult'.err = "Io"

\* Once the pipeline has returned an error nothing of it moves: the one step
\* left is the caller's, which receives the rejection.
AfterError ==
  UNCHANGED <<pc, request, map, files, upload, varPaths, cloneCalls, open, mpResult,
              outcome, sentOps, sentMap, sentOther, late>>

\* C10: an error raised anywhere in multipart decoding ends the pipeline at
\* once with that error; afterwards no field is read and no path bound, and
\* the caller gets the error and no Batch, bound or partially bound.
C10_ShortCircuit ==
  /\ [](mpResult.tag = "Err" =>
          /\ pc = "done"
          /\ outcome.tag = "Failed"
          /\ outcome.batch = None
          /\ Unwrap(outcome.rejection).cause = mpResult.err
          /\ mpResult.batch = None
          /\ request = None)
  /\ [][FieldErrorStep]_vars
  /\ [][CloneStep]_vars
  /\ [][mpResult.tag = "Err" => AfterError]_vars

\* Witness of C10: a clone failed after an upload of the same request had
\* been bound, and the request failed with the clone's error.
C10_Witness ==
  /\ MultipartDone
  /\ \A field \in Consumed : RaisedBy(field) = ""
  /\ mpResult.err = "Io"
  /\ cloneCalls >= 2
  /\ outcome.batch = None

\* ---------------------------------------------------------------- claim C11
\* An `operations` field whose bytes arrive and parse neither as an operation
\* object nor as an array of operations.
MalformedOperationsField(field) ==
  /\ field.name = "operations"
  /\ field.io = "ok"
  /\ field.body.kind \notin {"object", "array"}

\* Such a field was read by the request.
ReadMalformedOperations ==
  /\ MultipartDone
  /\ \E i \in 1..Len(sentOps) : MalformedOperationsField(sentOps[i])

\* C11 as stated: when the bytes of the `operations` field parse neither as
\* an operation object nor as an array, the extraction fails with the error
\* kind MalformedOperations, wherever the field stands in the stream.
C11_AsStated ==
  ReadMalformedOperations =>
    /\ outcome.tag = "Failed"
    /\ Unwrap(outcome.rejection).kind = "MalformedOperations"

\* C11 amended: the extraction then fails with the kind InvalidRequest whose
\* cause is the JSON decoding error of that field, wherever the field stands
\* in the stream, and no Batch is returned; no other field and no other step
\* of the multipart pipeline fails with that cause.
C11_InvalidRequest ==
  /\ ReadMalformedOperations =>
       /\ FailedWith("JsonError")
       /\ Unwrap(outcome.rejection) = InvalidRequest("JsonError")
       /\ MalformedOperationsField(sentOps[Len(sentOps)])
  /\ (branch = "MultipartUpload" /\ mpResult.err = "JsonError") =>
       ReadMalformedOperations

\* Witness of C11: a malformed `operations` field that arrived after a `map`
\* and after a file part had been collected failed the request.
C11_Witness ==
  /\ ReadMalformedOperations
  /\ sentMap # <<>>
  /\ "operations" \in late
  /\ Unwrap(outcome.rejection) = InvalidRequest("JsonError")

\* ---------------------------------------------------------------- claim C15
\* C15: when multipart decoding has returned an error, at a field, during
\* binding or at the unconsumed-keys check, no temporary-file handle of the
\* request is open; when it has returned a Batch, the open handles are those
\* of the uploads of that Batch, all of them clones (the files that were not
\* bound and the original handle of each bound file are closed), for as long
\* as the caller holds the Batch (the single-request extractor drops a Batch
\* it rejects).
C15_TempFilesReleased ==
  MultipartDone =>
    IF mpResult.tag = "Err" \/ single.tag = "Err"
      THEN open = {}
      ELSE /\ open = HandlesInBatch(Unwrap(mpResult.batch))
           /\ \A h \in open : h.dup # 0

\* Witness of C15: decoding failed at the unconsumed-keys check after two
\* temporary files had been created and a clone of one bound, and no handle
\* is open.
C15_Witness ==
  /\ AllPartsProcessed
  /\ mpResult.err = "MissingFiles"
  /\ Len(NamedParts) >= 2
  /\ cloneCalls >= 1
  /\ open = {}

\* ---------------------------------------------------------- claims C16, C17
\* The binder takes the next collected file.
TakingFile == pc = "bind" /\ varPaths = <<>> /\ files # <<>>

\* Position, among the named file parts of the stream, of the file the binder
\* takes next.
NextPart == Len(NamedParts) - Len(files) + 1

\* The binder goes on to the next file with the Batch, the map and the open
\* uploads as they were, and no error.
PassedOver ==
  /\ pc' = "bind"
  /\ mpResult' = Pending
  /\ request' = request
  /\ map' = map
  /\ upload' = None
  /\ varPaths' = <<>>
  /\ cloneCalls' = cloneCalls

\* The first part of a name that is a key consumes the key: the entry leaves
\* the map and its paths are the ones to visit.  A later part of the same
\* name is passed over.
ConsumeStep ==
  TakingFile =>
    LET name == Head(files).name
    IN /\ name = NamedParts[NextPart].name
       /\ IF Binds(NextPart)
            THEN /\ name \in DOMAIN Unwrap(map)
                 /\ DOMAIN Unwrap(map') = (DOMAIN Unwrap(map)) \ {name}
                 /\ \A k \in DOMAIN Unwrap(map') : Unwrap(map')[k] = Unwrap(map)[k]
                 /\ varPaths' = TheFileMap[name]
                 /\ request' = request
            ELSE name \in DOMAIN TheFileMap => (name \notin DOMAIN Unwrap(map) /\ PassedOver)

\* The named file parts that consumed key k.
Consumers(k) == {j \in 1..Len(NamedParts) : NamedParts[j].name = k /\ Binds(j)}

\* C16: a key of the File Map is consumed by the first file part, in stream
\* order, that carries the key as its field name, and by no other: a later
\* part of the same name finds no entry, binds nothing and raises no error;
\* in a successful decode every key was consumed by exactly one part, and
\* every upload of the Batch comes from a part that consumed a key.
C16_ConsumedOnce ==
  /\ [](mpResult.tag = "Ok" =>
          /\ \A k \in DOMAIN TheFileMap : Cardinality(Consumers(k)) = 1
          /\ \A b \in Bindings(Unwrap(mpResult.batch)) : Binds(b[3]))
  /\ [][ConsumeStep]_vars

\* Witness of C16: a successful decode of a request with two file parts of
\* the same name, with an upload bound.
C16_Witness ==
  /\ MultipartDone
  /\ mpResult.tag = "Ok"
  /\ \E j \in 1..Len(NamedParts) : \E k \in (j + 1)..Len(NamedParts) :
       NamedParts[j].name = NamedParts[k].name
  /\ Bindings(Unwrap(mpResult.batch)) # {}

\* A file part whose name is not a key of the File Map is passed over.
UnmappedStep ==
  (TakingFile /\ Head(files).name \notin DOMAIN TheFileMap) => PassedOver

\* A field named neither `operations` nor `map` that has no filename is read
\* and nothing comes of it: no file is collected, no error raised.
NoFilenameStep ==
  (sentOther' # sentOther /\ sentOther'[Len(sentOther')].filename = None) =>
     /\ pc' = "read"
     /\ mpResult' = Pending
     /\ request' = request
     /\ map' = map
     /\ files' = files
     /\ open' = open

\* Key k names a field without filename and no file part.
NamesOnlyPlainFields(k) ==
  /\ \E field \in Range(sentOther) : field.name = k /\ field.filename = None
  /\ \A field \in Range(sentOther) : field.name = k => field.filename = None

\* C17: a file part whose field name is no key of the File Map leaves the
\* Batch as it was and raises no error; a field named neither `operations`
\* nor `map` that has no filename is not collected as a file, binds nothing
\* and raises no error, and a key that names only such fields ends in
\* MissingFiles.
C17_IgnoredParts ==
  /\ [](AllPartsProcessed =>
          /\ (\E k \in DOMAIN TheFileMap : NamesOnlyPlainFields(k)) =>
                FailedWith("MissingFiles")
          /\ mpResult.tag = "Ok" =>
                \A b \in Bindings(Unwrap(mpResult.batch)) :
                  NamedParts[b[3]].name \in DOMAIN TheFileMap)
  /\ [][UnmappedStep]_vars
  /\ [][NoFilenameStep]_vars

\* Witness of C17: a request with a file part that is no key of the map and
\* a key that names only a field without filename failed with MissingFiles.
C17_Witness ==
  /\ AllPartsProcessed
  /\ \E k \in DOMAIN TheFileMap : NamesOnlyPlainFields(k)
  /\ \E j \in 1..Len(NamedParts) : NamedParts[j].name \notin DOMAIN TheFileMap
  /\ FailedWith("MissingFiles")

\* ---------------------------------------------------------------- claim C19
\* C19: the single-request extractor returns the Operation Document of a
\* single-shaped Batch and nothing else: a batch-shaped Batch, of any length,
\* is rejected (UnsupportedBatch) and none of its elements returned, and a
\* rejection of the batch extraction is returned as it is.
C19_SingleOnly ==
  single # NoSingle =>
    /\ pc = "done"
    /\ outcome.tag = "Failed" =>
         /\ single.tag = "Err"
         /\ single.request = None
         /\ single.rejection = outcome.rejection
    /\ (outcome.tag = "Decoded" /\ Unwrap(outcome.batch).shape = "Single") =>
         /\ single.tag = "Ok"
         /\ single.request = Some(Unwrap(outcome.batch).docs[1])
         /\ single.rejection = None
    /\ (outcome.tag = "Decoded" /\ Unwrap(outcome.batch).shape = "Batch") =>
         /\ single.tag = "Err"
         /\ single.request = None
         /\ Unwrap(single.rejection).kind = "UnsupportedBatch"
    /\ single.tag = "Ok" =>
         outcome.tag = "Decoded" /\ Unwrap(outcome.batch).shape = "Single"

\* Witness of C19: a JSON body that is an array of one operation was decoded
\* as a Batch of length 1 and rejected by the single-request extractor.
C19_Witness ==
  /\ single.tag = "Err"
  /\ branch = "JsonBody"
  /\ outcome.tag = "Decoded"
  /\ Unwrap(outcome.batch).shape = "Batch"
  /\ Len(Unwrap(outcome.batch).docs) = 1

\* ---------------------------------------------------------------- claim C20
\* An `operations` field is decoded when it is read, whether or not one was
\* read before: a well-formed one becomes the request, any other fails the
\* pipeline at that step.
OperationsStep ==
  sentOps' # sentOps =>
    LET field == sentOps'[Len(sentOps')]
    IN IF WellFormedOperations(field)
         THEN /\ request' = DecodeBatchRequest(field.body)
              /\ map' = map
              /\ files' = files
              /\ pc' = "read"
              /\ mpResult' = Pending
         ELSE /\ pc' = "done"
              /\ mpResult'.tag = "Err"
              /\ mpResult'.err = RaisedBy(field)

\* The same for a `map` field.
MapStep ==
  sentMap' # sentMap =>
    LET field == sentMap'[Len(sentMap')]
    IN IF WellFormedMap(field)
         THEN /\ map' = DecodeFilesMap(field.body)
              /\ request' = request
              /\ files' = files
              /\ pc' = "read"
              /\ mpResult' = Pending
         ELSE /\ pc' = "done"
              /\ mpResult'.tag = "Err"
              /\ mpResult'.err = RaisedBy(field)

\* The stream with the last `operations` and the last `map` alone, placed
\* first, and the other fields in the order they had.
LastOccurrences ==
  <<sentOps[Len(sentOps)], sentMap[Len(sentMap)]>> \o sentOther

\* C20: a repeated `operations` or `map` field raises no error by being
\* repeated; each occurrence is decoded when it is read and fails the request
\* there if it is malformed; otherwise the result of decoding (the bindings,
\* the unconsumed-keys check) is the one the last occurrence of each gives.
C20_LastWins ==
  /\ []((MultipartDone /\ AllFieldsRead /\ sentOps # <<>> /\ sentMap # <<>>) =>
          mpResult = ReceiveBatchMultipart(LastOccurrences, FailedClone))
  /\ [][OperationsStep]_vars
  /\ [][MapStep]_vars

\* Witness of C20: a request with two `map` fields succeeded with an upload
\* bound, the first map holding a key that no file part carried and the
\* second map not.
C20_Witness ==
  /\ MultipartDone
  /\ Len(sentMap) = 2
  /\ \E k \in DOMAIN sentMap[1].body.fmap :
       k \notin DOMAIN sentMap[2].body.fmap /\ ~MatchedByNamedPart(k)
  /\ mpResult.tag = "Ok"
  /\ Bindings(Unwrap(mpResult.batch)) # {}

\* ============================================================ response.rs
\* Longest list of custom headers a result carries.
MaxHeaders == 2

LowerCase == <<"a", "b", "c", "d", "e", "f", "g", "h", "i", "j", "k", "l", "m",
               "n", "o", "p", "q", "r", "s", "t", "u", "v", "w", "x", "y", "z">>
UpperCase == <<"A", "B", "C", "D", "E", "F", "G", "H", "I", "J", "K", "L", "M",
               "N", "O", "P", "Q", "R", "S", "T", "U", "V", "W", "X", "Y", "Z">>

ToLowerChar(c) ==
  IF c \in Range(UpperCase)
    THEN LowerCase[CHOOSE i \in 1..Len(UpperCase) : UpperCase[i] = c]
    ELSE c

\* The characters of an HTTP token (of its punctuation, the marks the model
\* writes).
TokenChars ==
  Range(LowerCase) \cup Range(UpperCase) \cup DigitChars
    \cup {"!", "#", "$", "%", "&", "*", "+", "-", ".", "^", "_", "|", "~"}

\* Control characters, which no header value may hold (a tab excepted).
ControlChars == {"\n", "\r"}

\* HeaderName::try_from(bytes): a non-empty token, normalised to lower case.
HeaderNameFrom(s) ==
  IF s # <<>> /\ \A i \in 1..Len(s) : s[i] \in TokenChars
    THEN Some([i \in 1..Len(s) |-> ToLowerChar(s[i])])
    ELSE None

\* HeaderValue::from_str(s): any string without control characters.
HeaderValueFrom(s) ==
  IF \A i \in 1..Len(s) : s[i] \notin ControlChars THEN Some(s) ELSE None

CACHE_CONTROL == <<"c", "a", "c", "h", "e", "-", "c", "o", "n", "t", "r", "o", "l">>
CONTENT_TYPE == <<"c", "o", "n", "t", "e", "n", "t", "-", "t", "y", "p", "e">>
ApplicationJson == <<"a", "p", "p", "l", "i", "c", "a", "t", "i", "o", "n", "/", "j", "s", "o", "n">>

\* Header names and values an execution result may carry.
CustomNames ==
  { CACHE_CONTROL,
    <<"C", "a", "c", "h", "e", "-", "C", "o", "n", "t", "r", "o", "l">>,
    <<"x", "-", "a">>,
    <<"x", " ", "a">>,
    <<>> }
CustomValues ==
  { <<"v">>, <<"n", "o", "-", "s", "t", "o", "r", "e">>, <<"v", "\n", "w">> }
CacheControlValues ==
  { <<"m", "a", "x", "-", "a", "g", "e", "=", "6", "0">>, <<"m", "a", "x", "\n">> }

RECURSIVE SeqsUpTo(_, _)
\* The sequences over S of length n or less.
SeqsUpTo(S, n) ==
  IF n = 0 THEN {<<>>}
  ELSE SeqsUpTo(S, n - 1)
         \cup {Append(q, x) : q \in {r \in SeqsUpTo(S, n - 1) : Len(r) = n - 1}, x \in S}

\* The execution results handed to the encoder: whether the result is
\* error-free, its cache-control value, its custom header pairs in the order
\* http_headers() yields them.
GraphQLResponses ==
  [is_ok : BOOLEAN,
   cache_control : {None} \cup {Some(v) : v \in CacheControlValues},
   http_headers : SeqsUpTo([name : CustomNames, value : CustomValues], MaxHeaders)]

\* HeaderMap::insert: the value of the name is set, replacing any it had.
Insert(headers, name, value) ==
  [k \in (DOMAIN headers) \cup {name} |-> IF k = name THEN value ELSE headers[k]]

\* Response::json(body).
JsonResponse(g) ==
  [body |-> [is_ok |-> g.is_ok],
   headers |-> [k \in {CONTENT_TYPE} |-> ApplicationJson]]

\* WithCacheControl without the is_ok test.
WithCacheControlAlways(r, g) ==
  IF IsSome(g.cache_control)
       /\ IsSome(HeaderValueFrom(Unwrap(g.cache_control)))
    THEN [r EXCEPT !.headers =
            Insert(@, CACHE_CONTROL, Unwrap(HeaderValueFrom(Unwrap(g.cache_control))))]
    ELSE r

\* The `if gr.0.is_ok()` block.
WithCacheControl(r, g) ==
  IF g.is_ok /\ IsSome(g.cache_control)
       /\ IsSome(HeaderValueFrom(Unwrap(g.cache_control)))
    THEN [r EXCEPT !.headers =
            Insert(@, CACHE_CONTROL, Unwrap(HeaderValueFrom(Unwrap(g.cache_control))))]
    ELSE r

RECURSIVE WithHttpHeadersUntilInvalid(_, _)
\* WithHttpHeaders with the loop left at the first pair that is not valid.
WithHttpHeadersUntilInvalid(r, pairs) ==
  IF pairs = <<>> THEN r
  ELSE LET name == HeaderNameFrom(Head(pairs).name)
           value == HeaderValueFrom(Head(pairs).value)
       IN IF IsSome(name) /\ IsSome(value)
            THEN WithHttpHeadersUntilInvalid(
                   [r EXCEPT !.headers = Insert(@, Unwrap(name), Unwrap(value))],
                   Tail(pairs))
            ELSE r

RECURSIVE WithHttpHeaders(_, _)
\* The `for (name, value) in gr.0.http_headers()` loop.
WithHttpHeaders(r, pairs) ==
  IF pairs = <<>> THEN r
  ELSE LET name == HeaderNameFrom(Head(pairs).name)
           value == HeaderValueFrom(Head(pairs).value)
       IN WithHttpHeaders(
            IF IsSome(name) /\ IsSome(value)
              THEN [r EXCEPT !.headers = Insert(@, Unwrap(name), Unwrap(value))]
              ELSE r,
            Tail(pairs))

\* impl From<GraphQLResponse> for Response.
ResponseFrom(g) ==
  WithHttpHeaders(WithCacheControl(JsonResponse(g), g), g.http_headers)

\* No request is being extracted.
NoExtraction ==
  /\ method = "GET"
  /\ contentType = "application/json"
  /\ pc = "idle"
  /\ branch = "none"
  /\ input = None
  /\ request = None
  /\ map = None
  /\ files = <<>>
  /\ upload = None
  /\ varPaths = <<>>
  /\ cloneCalls = 0
  /\ open = {}
  /\ mpResult = Pending
  /\ outcome = NoOutcome
  /\ single = NoSingle
  /\ sentOps = <<>>
  /\ sentMap = <<>>
  /\ sentOther = <<>>
  /\ late = {}

InitResponse ==
  /\ NoExtraction
  /\ NoNegotiation
  /\ NoBridge
  /\ gr \in {Some(g) : g \in GraphQLResponses}
  /\ resp = None

\* The responder converts the GraphQLResponse into the Response.
IntoResponse ==
  /\ gr # None
  /\ resp = None
  /\ resp' = Some(ResponseFrom(Unwrap(gr)))
  /\ UNCHANGED <<gr, extractVars, protocolVars, bridgeVars>>

NextResponse == IntoResponse

SpecResponse == InitResponse /\ [][NextResponse]_vars

\* ----------------------------------------------------------------- claim C7
\* The engine's cache-control value is valid header syntax.
ValidCacheControl(g) ==
  IsSome(g.cache_control) /\ IsSome(HeaderValueFrom(Unwrap(g.cache_control)))

\* Positions of the custom header pairs that are valid header syntax and
\* whose name is Cache-Control in any letter case.
CacheControlPairs(g) ==
  { i \in 1..Len(g.http_headers) :
      /\ HeaderNameFrom(g.http_headers[i].name) = Some(CACHE_CONTROL)
      /\ IsSome(HeaderValueFrom(g.http_headers[i].value)) }

\* C7 as stated: the outbound Cache-Control is the engine's cache-control
\* value when the result is error-free and the value valid, and is absent
\* whenever the result contains errors, whatever cache-control directive and
\* custom headers the engine returned.
C7_AsStated ==
  resp # None =>
    LET g == Unwrap(gr)
        headers == Unwrap(resp).headers
    IN /\ (g.is_ok /\ ValidCacheControl(g)) =>
            /\ CACHE_CONTROL \in DOMAIN headers
            /\ headers[CACHE_CONTROL] = Unwrap(g.cache_control)
       /\ ~g.is_ok => CACHE_CONTROL \notin DOMAIN headers

\* C7 amended: the same for the results none of whose valid custom headers
\* is named Cache-Control; when one is, the outbound Cache-Control is the
\* value of the last such pair, with or without errors in the result.
C7_CacheControl ==
  resp # None =>
    LET g == Unwrap(gr)
        headers == Unwrap(resp).headers
        pairs == CacheControlPairs(g)
    IN IF pairs = {}
         THEN /\ (g.is_ok /\ ValidCacheControl(g)) =>
                   /\ CACHE_CONTROL \in DOMAIN headers
                   /\ headers[CACHE_CONTROL] = Unwrap(g.cache_control)
              /\ ~g.is_ok => CACHE_CONTROL \notin DOMAIN headers
         ELSE /\ CACHE_CONTROL \in DOMAIN headers
              /\ headers[CACHE_CONTROL] =
                   g.http_headers[CHOOSE i \in pairs : \A j \in pairs : j <= i].value

\* Witness of C7: a result with errors, a valid cache-control value and a
\* valid custom header was encoded without Cache-Control.
C7_Witness ==
  /\ resp # None
  /\ ~Unwrap(gr).is_ok
  /\ ValidCacheControl(Unwrap(gr))
  /\ CacheControlPairs(Unwrap(gr)) = {}
  /\ DOMAIN Unwrap(resp).headers = {CONTENT_TYPE, <<"x", "-", "a">>}

\* ---------------------------------------------------------------- claim C18
\* Name and value of the pair are both valid header syntax.
ValidPair(pair) ==
  IsSome(HeaderNameFrom(pair.name)) /\ IsSome(HeaderValueFrom(pair.value))

\* The header name a valid pair is copied under.
NameOf(pair) == Unwrap(HeaderNameFrom(pair.name))

\* The names of the valid pairs of a result.
ValidNames(g) ==
  {NameOf(g.http_headers[i]) : i \in {j \in 1..Len(g.http_headers) : ValidPair(g.http_headers[j])}}

\* The headers of the response other than the custom ones.
OwnHeaders(g) ==
  {CONTENT_TYPE} \cup (IF g.is_ok /\ ValidCacheControl(g) THEN {CACHE_CONTROL} ELSE {})

\* C18 as stated: the encoding produces a response in which each custom
\* header pair with a valid name and a valid value is present, and no pair
\* with an invalid name or value is, with or without errors in the result.
C18_AsStated ==
  resp # None =>
    LET g == Unwrap(gr)
        headers == Unwrap(resp).headers
    IN /\ Unwrap(resp).body = [is_ok |-> g.is_ok]
       /\ \A i \in 1..Len(g.http_headers) :
            ValidPair(g.http_headers[i]) =>
              /\ NameOf(g.http_headers[i]) \in DOMAIN headers
              /\ headers[NameOf(g.http_headers[i])] = g.http_headers[i].value
       /\ DOMAIN headers = OwnHeaders(g) \cup ValidNames(g)

\* C18 amended: the same, with "present" meant for the last of the valid
\* pairs that share a header name (names compared without letter case): an
\* earlier valid pair of that name is replaced by it.
C18_CustomHeaders ==
  resp # None =>
    LET g == Unwrap(gr)
        headers == Unwrap(resp).headers
    IN /\ Unwrap(resp).body = [is_ok |-> g.is_ok]
       /\ \A i \in 1..Len(g.http_headers) :
            (/\ ValidPair(g.http_headers[i])
             /\ \A j \in (i + 1)..Len(g.http_headers) :
                  ValidPair(g.http_headers[j]) =>
                    NameOf(g.http_headers[j]) # NameOf(g.http_headers[i])) =>
              /\ NameOf(g.http_headers[i]) \in DOMAIN headers
              /\ headers[NameOf(g.http_headers[i])] = g.http_headers[i].value
       /\ DOMAIN headers = OwnHeaders(g) \cup ValidNames(g)
       /\ CONTENT_TYPE \notin ValidNames(g) => headers[CONTENT_TYPE] = ApplicationJson

\* Witness of C18: an error-free result with an invalid cache-control value,
\* an invalid pair and then a valid pair was encoded with the valid pair as
\* its only header besides the content type.
C18_Witness ==
  /\ resp # None
  /\ Unwrap(gr).is_ok
  /\ IsSome(Unwrap(gr).cache_control)
  /\ ~ValidCacheControl(Unwrap(gr))
  /\ Len(Unwrap(gr).http_headers) = 2
  /\ ~ValidPair(Unwrap(gr).http_headers[1])
  /\ ValidPair(Unwrap(gr).http_headers[2])
  /\ DOMAIN Unwrap(resp).headers = {CONTENT_TYPE, <<"x", "-", "a">>}

\* ========================================================= subscription.rs
\* Most values a Sec-WebSocket-Protocol header carries.
MaxValues == 3

\* A header value: its bytes as text, and whether they are all visible ASCII
\* (what HeaderValue::to_str requires).
SecValue(t, a) == [text |-> t, ascii |-> a]

SecValues ==
  { SecValue("graphql-ws", TRUE),
    SecValue("graphql-transport-ws", TRUE),
    SecValue("graphql-ws, graphql-transport-ws", TRUE),
    SecValue("GraphQL-WS", TRUE),
    SecValue("soap", TRUE),
    SecValue("graphql-ws+non-ascii-byte", FALSE) }

\* HeaderValue::to_str.
ToStr(value) == IF value.ascii THEN Some(value.text) ELSE None

\* str::parse::<WebSocketProtocols>().ok(): the two names of the enum.
ParseProtocol(text) ==
  CASE text = "graphql-ws" -> Some("SubscriptionsTransportWS")
    [] text = "graphql-transport-ws" -> Some("GraphQLWS")
    [] OTHER -> None

InvalidHeader == [tag |-> "Err", variant |-> "invalid"]
OkProtocol(v) == [tag |-> "Ok", variant |-> v]

\* SecWebsocketProtocol::decode(values).
Decode(vals) ==
  IF vals = <<>> THEN InvalidHeader
  ELSE IF ToStr(Head(vals)) = None THEN InvalidHeader
  ELSE IF ParseProtocol(Unwrap(ToStr(Head(vals)))) = None
    THEN OkProtocol("SubscriptionsTransportWS")
  ELSE OkProtocol(Unwrap(ParseProtocol(Unwrap(ToStr(Head(vals))))))

InitProtocol ==
  /\ NoExtraction
  /\ NoEncoding
  /\ NoBridge
  /\ values \in {Some(vs) : vs \in SeqsUpTo(SecValues, MaxValues)}
  /\ protocol = None

\* The typed header is decoded from the values of the request.
DecodeHeader ==
  /\ values # None
  /\ protocol = None
  /\ protocol' = Some(Decode(Unwrap(values)))
  /\ UNCHANGED <<values, extractVars, encodeVars, bridgeVars>>

NextProtocol == DecodeHeader

SpecProtocol == InitProtocol /\ [][NextProtocol]_vars

\* ----------------------------------------------------------------- claim C8
\* The text of the header names a supported variant.
Supported(value) == value.ascii /\ value.text \in {"graphql-ws", "graphql-transport-ws"}

\* C8: negotiation yields the legacy variant SubscriptionsTransportWS, and
\* no error, when the header is missing and when its value cannot be parsed
\* as a supported variant; a value naming a supported variant yields that
\* variant.
C8_LegacyDefault ==
  protocol # None =>
    LET vs == Unwrap(values)
    IN IF vs = <<>> \/ ~Supported(vs[1])
         THEN Unwrap(protocol) = OkProtocol("SubscriptionsTransportWS")
         ELSE Unwrap(protocol) =
                OkProtocol(IF vs[1].text = "graphql-ws"
                             THEN "SubscriptionsTransportWS" ELSE "GraphQLWS")

\* ------------------------------------------- graphql_subscription_with_data
\* Most items the transport's inbound half yields before it ends.
MaxInbound == 4
\* Most messages the protocol engine yields before its output ends.
MaxOutputs == 2

\* A transport Message: its type, and the text, bytes and close code it holds.
Message(t, txt, bs, c) == [type |-> t, text |-> txt, bytes |-> bs, code |-> c]

\* Message::text(text).
MessageText(text) == Message("text", text, <<>>, 0)

\* Message::close_with(code, reason).
MessageCloseWith(code, reason) == Message("close", reason, <<>>, code)

\* The UTF-8 bytes of the texts of the model.
Utf8(text) ==
  CASE text = "{}" -> <<123, 125>>
    [] text = "bye" -> <<98, 121, 101>>
    [] text = "data" -> <<100, 97, 116, 97>>
    [] OTHER -> <<>>

\* Message::into_bytes.
IntoBytes(msg) == IF msg.type = "text" THEN Utf8(msg.text) ELSE msg.bytes

\* msg.is_text() || msg.is_binary().
IsTextOrBinary(msg) == msg.type \in {"text", "binary"}

\* What the inbound half of the WebSocket yields: Ok(message) or Err(error).
OkItem(msg) == [ok |-> TRUE, msg |-> msg]
ErrItem == [ok |-> FALSE, msg |-> Message("none", "", <<>>, 0)]

TransportItems ==
  { OkItem(MessageText("{}")),
    OkItem(Message("binary", "", <<123, 125, 10>>, 0)),
    OkItem(Message("ping", "", <<123, 125>>, 0)),
    ErrItem }

\* The sequences of items a transport yields before it ends.  After its first
\* error a transport may yield more; the model lets text messages follow it.
Wires ==
  { w \in SeqsUpTo(TransportItems, MaxInbound) :
      \A i \in 1..Len(w) : \A j \in (i + 1)..Len(w) :
        ~w[i].ok => w[j] = OkItem(MessageText("{}")) }

\* WsMessage::Text(text) and WsMessage::Close(code, status).
WsText(text) == [tag |-> "Text", text |-> text, code |-> 0]
WsClose(code, status) == [tag |-> "Close", text |-> status, code |-> code]

\* The messages the protocol engine may yield.
WsMessages == {WsText("data"), WsClose(1000, "bye")}

\* Translate with the reason of a close frame left out.
TranslateDropsReason(msg) ==
  IF msg.tag = "Text" THEN MessageText(msg.text)
  ELSE MessageCloseWith(msg.code, "")

\* The closure mapped over the engine's output.
Translate(msg) ==
  IF msg.tag = "Text" THEN MessageText(msg.text)
  ELSE MessageCloseWith(msg.code, msg.text)

InitBridge ==
  /\ NoExtraction
  /\ NoEncoding
  /\ NoNegotiation
  /\ wire \in Wires
  /\ taken = 0
  /\ inputDone = FALSE
  /\ fed = <<>>
  /\ produced = <<>>
  /\ item = None
  /\ sink = <<>>
  /\ engineEnded = FALSE
  /\ bpc = "next"

\* InboundItem with take_while left out: an error of the transport is passed
\* over like a message of another type.
InboundItemSkipsErrors ==
  /\ bpc = "next"
  /\ ~inputDone
  /\ taken < Len(wire)
  /\ taken' = taken + 1
  /\ LET it == wire[taken + 1]
     IN fed' = IF it.ok /\ IsTextOrBinary(it.msg)
                 THEN Append(fed, IntoBytes(it.msg)) ELSE fed
  /\ UNCHANGED <<wire, inputDone, produced, item, sink, engineEnded, bpc>>
  /\ UNCHANGED <<extractVars, encodeVars, protocolVars>>

\* The engine, polled by stream.next(), polls `input`, and the transport has
\* an item: take_while ends the input at an error, filter drops a message that
\* is neither text nor binary, and the bytes of any other reach the engine.
InboundItem ==
  /\ bpc = "next"
  /\ ~inputDone
  /\ taken < Len(wire)
  /\ taken' = taken + 1
  /\ LET it == wire[taken + 1]
     IN /\ inputDone' = ~it.ok
        /\ fed' = IF it.ok /\ IsTextOrBinary(it.msg)
                    THEN Append(fed, IntoBytes(it.msg)) ELSE fed
  /\ UNCHANGED <<wire, produced, item, sink, engineEnded, bpc>>
  /\ UNCHANGED <<extractVars, encodeVars, protocolVars>>

\* The engine polls `input` and the transport has ended.
InboundEnd ==
  /\ bpc = "next"
  /\ ~inputDone
  /\ taken = Len(wire)
  /\ inputDone' = TRUE
  /\ UNCHANGED <<wire, taken, fed, produced, item, sink, engineEnded, bpc>>
  /\ UNCHANGED <<extractVars, encodeVars, protocolVars>>

\* stream.next() yields Some(item): a message of the engine, translated.
EngineYield ==
  /\ bpc = "next"
  /\ Len(produced) < MaxOutputs
  /\ \E msg \in WsMessages :
       /\ produced' = Append(produced, msg)
       /\ item' = Some(Translate(msg))
  /\ bpc' = "send"
  /\ UNCHANGED <<wire, taken, inputDone, fed, sink, engineEnded>>
  /\ UNCHANGED <<extractVars, encodeVars, protocolVars>>

\* stream.next() yields None: the loop, and the bridge, end.
EngineEnd ==
  /\ bpc = "next"
  /\ engineEnded' = TRUE
  /\ bpc' = "done"
  /\ UNCHANGED <<wire, taken, inputDone, fed, produced, item, sink>>
  /\ UNCHANGED <<extractVars, encodeVars, protocolVars>>

\* Send with a failed send ending the loop.
SendStopsOnFailure ==
  /\ bpc = "send"
  /\ \E ok \in BOOLEAN :
       /\ sink' = Append(sink, [msg |-> Unwrap(item), ok |-> ok])
       /\ bpc' = IF ok THEN "next" ELSE "done"
  /\ item' = None
  /\ UNCHANGED <<wire, taken, inputDone, fed, produced, engineEnded>>
  /\ UNCHANGED <<extractVars, encodeVars, protocolVars>>

\* `let _ = sink.send(item).await`: the send ends, with Ok or Err.
Send ==
  /\ bpc = "send"
  /\ \E ok \in BOOLEAN :
       sink' = Append(sink, [msg |-> Unwrap(item), ok |-> ok])
  /\ item' = None
  /\ bpc' = "next"
  /\ UNCHANGED <<wire, taken, inputDone, fed, produced, engineEnded>>
  /\ UNCHANGED <<extractVars, encodeVars, protocolVars>>

NextBridge ==
  \/ InboundItem
  \/ InboundEnd
  \/ EngineYield
  \/ EngineEnd
  \/ Send

SpecBridge == InitBridge /\ [][NextBridge]_vars

\* The engine ends its output once its input is closed.
EngineEndsOnClosedInput == inputDone /\ EngineEnd

\* The bridge with a sink whose sends end and an engine that ends its output
\* once its input is closed.
SpecBridgeFair ==
  /\ InitBridge
  /\ [][NextBridge]_vars
  /\ WF_vars(Send)
  /\ WF_vars(EngineEndsOnClosedInput)

\* ---------------------------------------------------------------- claim C12
\* The transport message is the engine's message: a text with the same text,
\* or a close with the same code and the same reason.
SameMessage(ws, msg) ==
  IF ws.tag = "Text"
    THEN msg.type = "text" /\ msg.text = ws.text
    ELSE msg.type = "close" /\ msg.code = ws.code /\ msg.text = ws.text

\* C12: the messages handed to the sink are, one for one and in the order
\* produced, the messages the engine has yielded (the last one still held by
\* the loop while its send has not begun), each translated to a text with the
\* same text or a close with the same code and reason.
C12_OneForOne ==
  /\ Len(sink) = Len(produced) - (IF bpc = "send" THEN 1 ELSE 0)
  /\ \A i \in 1..Len(sink) : SameMessage(produced[i], sink[i].msg)
  /\ bpc = "send" <=> item # None
  /\ bpc = "send" => SameMessage(produced[Len(produced)], Unwrap(item))

\* Witness of C12: the bridge has ended after a text and then a close were
\* produced and handed to the sink.
C12_Witness ==
  /\ bpc = "done"
  /\ Len(produced) = 2
  /\ produced[1].tag = "Text"
  /\ produced[2].tag = "Close"
  /\ Len(sink) = 2
  /\ sink[2].msg.code = 1000
  /\ sink[2].msg.text = "bye"

\* ---------------------------------------------------------------- claim C13
\* Position of the first error the transport yields, Len(wire) + 1 when it
\* yields none.
FirstError ==
  IF \E i \in 1..Len(wire) : ~wire[i].ok
    THEN CHOOSE i \in 1..Len(wire) : ~wire[i].ok /\ \A j \in 1..(i - 1) : wire[j].ok
    ELSE Len(wire) + 1

\* A text or binary message.
Forwarded(it) == it.ok /\ it.msg.type \in {"text", "binary"}

\* The bytes of the text and binary messages among the first n items.
BytesOfFirst(n) ==
  LET kept == SelectSeq(SubSeq(wire, 1, n), Forwarded)
  IN [i \in 1..Len(kept) |->
        IF kept[i].msg.type = "text" THEN Utf8(kept[i].msg.text)
        ELSE kept[i].msg.bytes]

\* C13: the engine has been fed the bytes of the text and binary messages
\* among the items pulled before the first transport error, in arrival order;
\* a message of another type is dropped; the first error ends the inbound
\* sequence without ending the bridge, and afterwards nothing is pulled from
\* the transport or fed to the engine.
C13_Inbound ==
  /\ [](/\ taken <= FirstError
        /\ taken <= Len(wire)
        /\ fed = BytesOfFirst(IF taken < FirstError THEN taken ELSE FirstError - 1)
        /\ taken = FirstError => inputDone)
  /\ [][inputDone => (inputDone' /\ fed' = fed /\ taken' = taken)]_vars
  /\ [][taken' # taken => (bpc' = bpc /\ ~engineEnded')]_vars

\* Witness of C13: a message was dropped, a later one forwarded, then an
\* error ended the input with an item of the transport still to come.
C13_Witness ==
  /\ inputDone
  /\ taken = FirstError
  /\ FirstError < Len(wire)
  /\ fed # <<>>
  /\ \E i \in 1..(FirstError - 1) : \E j \in (i + 1)..(FirstError - 1) :
       ~Forwarded(wire[i]) /\ Forwarded(wire[j])

\* ---------------------------------------------------------------- claim C14
\* C14: a send that fails leaves the loop running (the bridge goes back to
\* take the engine's next message); the bridge has ended exactly when the
\* engine's output has ended; and once the input is closed, with an engine
\* that then ends its output, the bridge ends, whatever the sends returned.
C14_BestEffort ==
  /\ [][bpc = "send" => bpc' = "next"]_vars
  /\ [](bpc = "done" <=> engineEnded)
  /\ [][bpc' = "done" /\ bpc # "done" => (bpc = "next" /\ item = None)]_vars
  /\ (inputDone ~> bpc = "done")

\* Witness of C14: the bridge has ended after the input was closed, having
\* sent two messages, of which every send failed.
C14_Witness ==
  /\ bpc = "done"
  /\ inputDone
  /\ Len(sink) = 2
  /\ \A i \in 1..Len(sink) : ~sink[i].ok
====
